---- MODULE Spec2Model ----
(***************************************************************************)
(* Model of the sales dashboard script app.py: the fiscal-period resolver  *)
(* get_fiscal_period, the currency normalisation of load_and_process_data, *)
(* the 12-month skeleton create_full_period_df, and the script body that   *)
(* filters, groups by month and merges the two chart series.               *)
(*                                                                         *)
(* Python strings are sequences of Unicode code points, so that formatting *)
(* (f-string), parsing (int, to_numeric), replacement and sorted() are     *)
(* computed as Python computes them.  Python values that may be None are   *)
(* tagged records.                                                         *)
(***************************************************************************)
EXTENDS Integers, Sequences, FiniteSets, TLC

VARIABLES
    pc,               \* position of the script run
    columns,          \* header names of the fetched worksheet
    df,               \* the processed DataFrame rows (load_and_process_data)
    selected_shoryu,  \* sidebar multiselect: flow types
    selected_phase,   \* sidebar multiselect: phases
    selected_sales,   \* sidebar multiselect: representatives
    all_periods,      \* sorted list of period labels offered by the selectbox
    latest_period_index, \* default index of the selectbox
    selected_period,  \* selectbox value
    order_out,        \* what the order-based section rendered
    delivery_out,     \* what the delivery-based section rendered
    error,            \* TRUE once the top-level except handler has run
    call              \* unit harness: the last function call, its argument and result

vars == <<pc, columns, df, selected_shoryu, selected_phase, selected_sales,
          all_periods, latest_period_index, selected_period,
          order_out, delivery_out, error, call>>

pipeline_vars == <<pc, columns, df, selected_shoryu, selected_phase, selected_sales,
                   all_periods, latest_period_index, selected_period,
                   order_out, delivery_out, error>>

(***************************************************************************)
(* Bounds of the model.                                                    *)
(***************************************************************************)
MaxRecords == 2     \* rows in the fetched worksheet
MaxStrLen == 4      \* length of the enumerated raw strings
MaxPeriod == 12     \* period numbers whose labels are expanded
MaxYearSpan == 4    \* calendar years after the first one fed to the resolver

(***************************************************************************)
(* Python values.                                                          *)
(***************************************************************************)
None == [t |-> "None"]
Str(s) == [t |-> "str", v |-> s]
Num(n) == [t |-> "int", v |-> n]
NaT == [t |-> "NaT"]
Timestamp(y, m, d) == [t |-> "Timestamp", year |-> y, month |-> m, day |-> d]

IsStr(x) == x.t = "str"

\* Code points of the characters the program's literals use.
CH_DAI == 31532     \* U+7B2C, first character of the period label
CH_KI == 26399      \* U+671F, last character of the period label
CH_TAI == 23550     \* U+5BFE
CH_SHOU == 35937    \* U+8C61
CH_KAN == 38291     \* U+9593
CH_GAI == 22806     \* U+5916
CH_YEN == 165       \* U+00A5
CH_COMMA == 44
CH_SPACE == 32
CH_ZERO == 48
CH_MINUS == 45
CH_PLUS == 43
CH_X == CH_ZERO + 40    \* the letter X, a character that is no digit
CH_UPPER_N == 78
CH_LOWER_O == 111
CH_LOWER_N == 110
CH_LOWER_E == 101

\* The sentinel literal of get_fiscal_period.
OUT_OF_RANGE == <<CH_TAI, CH_SHOU, CH_KI, CH_KAN, CH_GAI>>

BASE_YEAR == 2022

IsDigit(c) == c >= CH_ZERO /\ c <= CH_ZERO + 9

\* str(n) for an integer n.
RECURSIVE DigitsOf(_)
DigitsOf(n) == IF n < 10 THEN <<CH_ZERO + n>>
               ELSE Append(DigitsOf(n \div 10), CH_ZERO + (n % 10))

PyStrOfInt(n) == IF n < 0 THEN <<CH_MINUS>> \o DigitsOf(-n) ELSE DigitsOf(n)

\* The value of a non-empty digit string.
RECURSIVE ValueOfDigits(_)
ValueOfDigits(s) == IF s = <<>> THEN 0
                    ELSE 10 * ValueOfDigits(SubSeq(s, 1, Len(s) - 1))
                         + (s[Len(s)] - CH_ZERO)

AllDigits(s) == s # <<>> /\ \A i \in 1..Len(s) : IsDigit(s[i])

\* str.strip(): whitespace removed at both ends.
RECURSIVE LStrip(_)
LStrip(s) == IF s # <<>> /\ s[1] = CH_SPACE THEN LStrip(Tail(s)) ELSE s

RECURSIVE RStrip(_)
RStrip(s) == IF s # <<>> /\ s[Len(s)] = CH_SPACE
             THEN RStrip(SubSeq(s, 1, Len(s) - 1)) ELSE s

Strip(s) == RStrip(LStrip(s))

\* str.replace(c, ''): every occurrence of a character of cs removed.
RECURSIVE RemoveChars(_, _)
RemoveChars(s, cs) ==
    IF s = <<>> THEN <<>>
    ELSE IF s[1] \in cs THEN RemoveChars(Tail(s), cs)
         ELSE <<s[1]>> \o RemoveChars(Tail(s), cs)

Contains(s, c) == \E i \in 1..Len(s) : s[i] = c

\* Python's int(str) and pandas' to_numeric on a string, for the integer
\* literals: optional surrounding whitespace, optional sign, digits.
\* ok = FALSE is ValueError for int() and NaN for to_numeric(errors='coerce').
ParseInt(s) ==
    LET b == Strip(s)
        signed == b # <<>> /\ b[1] \in {CH_MINUS, CH_PLUS}
        ds == IF signed THEN Tail(b) ELSE b
    IN IF AllDigits(ds)
       THEN [ok |-> TRUE,
             v |-> IF signed /\ b[1] = CH_MINUS THEN -ValueOfDigits(ds)
                   ELSE ValueOfDigits(ds)]
       ELSE [ok |-> FALSE, v |-> 0]

\* Python's ordering of str: lexicographic by code point.
RECURSIVE StrLess(_, _)
StrLess(a, b) ==
    IF b = <<>> THEN FALSE
    ELSE IF a = <<>> THEN TRUE
    ELSE IF a[1] # b[1] THEN a[1] < b[1]
    ELSE StrLess(Tail(a), Tail(b))

\* sorted(list(S)) for a set S of strings.
RECURSIVE Sorted(_)
Sorted(S) ==
    IF S = {} THEN <<>>
    ELSE LET m == CHOOSE x \in S : \A y \in S \ {x} : StrLess(x, y)
         IN <<m>> \o Sorted(S \ {m})

(***************************************************************************)
(* get_fiscal_period                                                       *)
(***************************************************************************)
get_fiscal_period_wrong_month(date) ==
    IF date = NaT THEN None
    ELSE LET fiscal_year == IF date.month >= 3 THEN date.year ELSE date.year - 1
             period_number == fiscal_year - BASE_YEAR
         IN IF period_number > 0
            THEN Str(<<CH_DAI>> \o PyStrOfInt(period_number) \o <<CH_KI>>)
            ELSE Str(OUT_OF_RANGE)

get_fiscal_period(date) ==
    IF date = NaT THEN None
    ELSE LET fiscal_year == IF date.month >= 4 THEN date.year ELSE date.year - 1
             period_number == fiscal_year - BASE_YEAR
         IN IF period_number > 0
            THEN Str(<<CH_DAI>> \o PyStrOfInt(period_number) \o <<CH_KI>>)
            ELSE Str(OUT_OF_RANGE)

(***************************************************************************)
(* create_full_period_df                                                   *)
(***************************************************************************)
\* start_date + relativedelta(months=i) for a first-of-month start_date.
AddMonths(ts, i) ==
    LET k == (ts.month - 1) + i
    IN Timestamp(ts.year + (k \div 12), (k % 12) + 1, ts.day)

\* The result is None, a raised ValueError, or the column of 12 months.
ReturnNone == [kind |-> "None"]
Raised(e) == [kind |-> "raise", exc |-> e]
Frame(months) == [kind |-> "DataFrame", months |-> months]

create_full_period_df_from_january(period_str) ==
    IF ~IsStr(period_str) THEN ReturnNone
    ELSE IF ~Contains(period_str.v, CH_DAI) THEN ReturnNone
    ELSE LET parsed == ParseInt(RemoveChars(RemoveChars(period_str.v, {CH_DAI}), {CH_KI}))
         IN IF ~parsed.ok THEN Raised("ValueError")
            ELSE LET start_year == BASE_YEAR + parsed.v
                     start_date == Timestamp(start_year, 1, 1)
                 IN Frame([i \in 1..12 |-> AddMonths(start_date, i - 1)])

create_full_period_df_other_base(period_str) ==
    IF ~IsStr(period_str) THEN ReturnNone
    ELSE IF ~Contains(period_str.v, CH_DAI) THEN ReturnNone
    ELSE LET parsed == ParseInt(RemoveChars(RemoveChars(period_str.v, {CH_DAI}), {CH_KI}))
         IN IF ~parsed.ok THEN Raised("ValueError")
            ELSE LET start_year == BASE_YEAR - 1 + parsed.v
                     start_date == Timestamp(start_year, 4, 1)
                 IN Frame([i \in 1..12 |-> AddMonths(start_date, i - 1)])

create_full_period_df(period_str) ==
    IF ~IsStr(period_str) THEN ReturnNone
    ELSE IF ~Contains(period_str.v, CH_DAI) THEN ReturnNone
    ELSE LET parsed == ParseInt(RemoveChars(RemoveChars(period_str.v, {CH_DAI}), {CH_KI}))
         IN IF ~parsed.ok THEN Raised("ValueError")
            ELSE LET start_year == BASE_YEAR + parsed.v
                     start_date == Timestamp(start_year, 4, 1)
                 IN Frame([i \in 1..12 |-> AddMonths(start_date, i - 1)])

(***************************************************************************)
(* Currency normalisation (the currency_columns loop)                      *)
(***************************************************************************)
\* Series.replace(r'^\s*$', None, regex=True): blank strings become None.
\* (an explicitly passed value=None is the replacement value)
BlankToNone(raw) ==
    IF IsStr(raw) /\ Strip(raw.v) = <<>> THEN None ELSE raw

\* Series.astype(str)
AsTypeStr(x) ==
    IF x.t = "None" THEN <<CH_UPPER_N, CH_LOWER_O, CH_LOWER_N, CH_LOWER_E>>
    ELSE IF x.t = "int" THEN PyStrOfInt(x.v)
    ELSE x.v

\* pd.to_numeric(errors='coerce').fillna(0)
ToNumericFillZero(s) == LET p == ParseInt(s) IN IF p.ok THEN p.v ELSE 0

normalize_amount_keep_separator(raw) ==
    ToNumericFillZero(RemoveChars(AsTypeStr(BlankToNone(raw)), {CH_YEN}))

normalize_amount(raw) ==
    ToNumericFillZero(RemoveChars(AsTypeStr(BlankToNone(raw)), {CH_YEN, CH_COMMA}))

IsLeap(y) == (y % 4 = 0 /\ y % 100 # 0) \/ y % 400 = 0

DaysInMonth(y, m) ==
    IF m = 2 THEN (IF IsLeap(y) THEN 29 ELSE 28)
    ELSE IF m \in {4, 6, 9, 11} THEN 30 ELSE 31

NoCall == [fn |-> "none", arg |-> None, ret |-> None]

PipelineIdle ==
    /\ pc = "load"
    /\ columns = {}
    /\ df = <<>>
    /\ selected_shoryu = {}
    /\ selected_phase = {}
    /\ selected_sales = {}
    /\ all_periods = <<>>
    /\ latest_period_index = 0
    /\ selected_period = None
    /\ order_out = [kind |-> "pending"]
    /\ delivery_out = [kind |-> "pending"]
    /\ error = FALSE

(***************************************************************************)
(* The worksheet.  Column names are transliterated:                        *)
(*   kanri_no      management number      juchu_tsuki   order month        *)
(*   nouhin_tsuki  delivery month         uriage        revenue (ex tax)   *)
(*   arari         gross profit (ex tax)  shoryu        flow type          *)
(*   anken_phase   phase                  tantousha     representative 1   *)
(*   eigyo_tantou  representative 2       juchu_ki      order period       *)
(*   nouhin_ki     delivery period        tsuki         month (chart key)  *)
(***************************************************************************)
AllColumns == {"kanri_no", "juchu_tsuki", "nouhin_tsuki", "uriage", "arari",
               "shoryu", "anken_phase", "tantousha", "eigyo_tantou"}

sales_options == {"Aikawa Naoki", "Sasaki Ryo", "Takahashi Kazuhiro", "Emoto Fuga",
                  "Nozawa Hibiki", "Murofushi Yu", "Yuasa Hana", "Sasaki Shin",
                  "Kankoku"}

\* Raw date cells: a blank cell, the last day before the first period, a day
\* inside it and the first day of the tenth period; month-end days of the
\* first and second periods.
OrderCells == <<Str(<<>>), Timestamp(2023, 3, 31), Timestamp(2023, 5, 10),
                Timestamp(2032, 4, 1)>>

DeliveryCells == <<Timestamp(2023, 5, 31), Timestamp(2024, 4, 30)>>

\* The other cells of a row.
Profiles ==
    << [kanri_no |-> Str(<<CH_X>>),
        uriage |-> Str(<<CH_YEN, CH_ZERO + 1, CH_COMMA, CH_ZERO, CH_ZERO, CH_ZERO>>),
        arari |-> Str(<<CH_YEN, CH_ZERO + 2, CH_ZERO, CH_ZERO>>),
        shoryu |-> "direct", anken_phase |-> "won",
        tantousha |-> "Aikawa Naoki", eigyo_tantou |-> ""],
       [kanri_no |-> Str(<<CH_X>>),
        uriage |-> Num(500),
        arari |-> Str(<<>>),
        shoryu |-> "agency", anken_phase |-> "won",
        tantousha |-> "Gaibu", eigyo_tantou |-> "Aikawa Naoki"],
       [kanri_no |-> Str(<<CH_SPACE>>),
        uriage |-> Str(<<CH_ZERO + 7>>),
        arari |-> Str(<<CH_ZERO + 3>>),
        shoryu |-> "direct", anken_phase |-> "lost",
        tantousha |-> "Sasaki Ryo", eigyo_tantou |-> "Gaibu"] >>

CatalogSize == Len(OrderCells) * Len(DeliveryCells) * Len(Profiles)

\* The k-th row of the catalogue, k in 0..CatalogSize-1.
CatalogRow(k) ==
    LET o == OrderCells[(k % Len(OrderCells)) + 1]
        d == DeliveryCells[((k \div Len(OrderCells)) % Len(DeliveryCells)) + 1]
        p == Profiles[(k \div (Len(OrderCells) * Len(DeliveryCells))) + 1]
    IN [kanri_no |-> p.kanri_no, juchu_tsuki |-> o, nouhin_tsuki |-> d,
        uriage |-> p.uriage, arari |-> p.arari, shoryu |-> p.shoryu,
        anken_phase |-> p.anken_phase, tantousha |-> p.tantousha,
        eigyo_tantou |-> p.eigyo_tantou]

\* Worksheets of up to n rows; the script never observes the row order, so
\* rows are enumerated up to permutation.
RECURSIVE SheetIndices(_)
SheetIndices(n) ==
    IF n = 0 THEN {<<>>}
    ELSE LET shorter == SheetIndices(n - 1)
         IN shorter \cup
            {Append(pr[1], pr[2]) :
               pr \in {q \in shorter \X (0..(CatalogSize - 1)) :
                         /\ Len(q[1]) = n - 1
                         /\ (q[1] = <<>> \/ q[1][Len(q[1])] <= q[2])}}

Worksheets == {[i \in 1..Len(ix) |-> CatalogRow(ix[i])] : ix \in SheetIndices(MaxRecords)}

\* The worksheet's header: complete, or with one name absent.
HeaderChoices == {AllColumns} \cup {AllColumns \ {c} : c \in AllColumns}

(***************************************************************************)
(* load_and_process_data                                                   *)
(***************************************************************************)
\* df[mask]: the rows at which a boolean mask is TRUE.
RECURSIVE SelectRows(_, _)
SelectRows(rows, mask) ==
    IF rows = <<>> THEN <<>>
    ELSE IF mask[1] THEN <<rows[1]>> \o SelectRows(Tail(rows), Tail(mask))
         ELSE SelectRows(Tail(rows), Tail(mask))

\* pd.to_datetime(errors="coerce")
ToDatetime(cell) == IF cell.t = "Timestamp" THEN cell ELSE NaT

\* Rows whose management number is not blank (only if the column exists).
DropBlankKanri(rows, cols) ==
    IF "kanri_no" \in cols
    THEN SelectRows(rows, [i \in 1..Len(rows) |->
                                Strip(AsTypeStr(rows[i].kanri_no)) # <<>>])
    ELSE rows

\* One processed row: dates coerced, currency columns normalised when
\* present, the two period columns added.
ProcessRow(r, cols) ==
    LET juchu == ToDatetime(r.juchu_tsuki)
        nouhin == ToDatetime(r.nouhin_tsuki)
    IN [c \in cols \cup {"juchu_ki", "nouhin_ki"} |->
          IF c = "juchu_tsuki" THEN juchu
          ELSE IF c = "nouhin_tsuki" THEN nouhin
          ELSE IF c \in {"uriage", "arari"} THEN normalize_amount(r[c])
          ELSE IF c = "juchu_ki" THEN get_fiscal_period(juchu)
          ELSE IF c = "nouhin_ki" THEN get_fiscal_period(nouhin)
          ELSE r[c]]

load_and_process_data(sheet, cols) ==
    LET kept == DropBlankKanri(sheet, cols)
    IN [i \in 1..Len(kept) |-> ProcessRow(kept[i], cols)]

\* df["juchu_tsuki"] and df["nouhin_tsuki"] raise KeyError when absent.
LoadRaises(cols) == ~({"juchu_tsuki", "nouhin_tsuki"} \subseteq cols)

(***************************************************************************)
(* Sidebar filters and period selection                                    *)
(***************************************************************************)
ColumnValues(rows, c) == {rows[i][c] : i \in 1..Len(rows)}

\* df["shoryu"] and df["anken_phase"] are looked up unconditionally.
ShoryuLookupRaises(cols) == "shoryu" \notin cols

PhaseLookupRaises(cols) == "anken_phase" \notin cols

\* df[sales_col_1] and df[sales_col_2] are looked up unconditionally.
BaseFilterRaises(cols) == "tantousha" \notin cols \/ "eigyo_tantou" \notin cols

\* sorted(list(set(order_periods) | set(delivery_periods))), None dropped.
AllPeriods_without_sentinel(rows) ==
    LET labels == ColumnValues(rows, "juchu_ki") \cup ColumnValues(rows, "nouhin_ki")
    IN Sorted({l.v : l \in {x \in labels : x # None}} \ {OUT_OF_RANGE})

AllPeriods(rows) ==
    LET labels == ColumnValues(rows, "juchu_ki") \cup ColumnValues(rows, "nouhin_ki")
    IN Sorted({l.v : l \in {x \in labels : x # None}})

\* len(all_periods) - 1 if all_periods else 0
LatestPeriodIndex(periods) == IF periods # <<>> THEN Len(periods) - 1 ELSE 0

\* The mask of lines 125-129 for one row.
base_filter(r, shoryu_sel, phase_sel, sales_sel) ==
    /\ r.shoryu \in shoryu_sel
    /\ r.anken_phase \in phase_sel
    /\ (r.tantousha \in sales_sel \/ r.eigyo_tantou \in sales_sel)

(***************************************************************************)
(* Monthly grouping and merge                                              *)
(***************************************************************************)
MonthIndex(ts) == ts.year * 12 + (ts.month - 1)

\* The label pd.Grouper(freq='M') gives a bin: the last day of the month.
MonthEndOfIndex(k) ==
    Timestamp(k \div 12, (k % 12) + 1, DaysInMonth(k \div 12, (k % 12) + 1))

RECURSIVE SumColumn(_, _)
SumColumn(rows, c) ==
    IF rows = <<>> THEN 0 ELSE rows[1][c] + SumColumn(Tail(rows), c)

\* set_index(date_col).groupby(pd.Grouper(freq='M'))[[uriage, arari]].sum()
\* .reset_index(): one row per month from the earliest to the latest.
GroupByMonth(rows, date_col) ==
    LET idx == {MonthIndex(rows[i][date_col]) : i \in 1..Len(rows)}
        lo == CHOOSE k \in idx : \A j \in idx : k <= j
        hi == CHOOSE k \in idx : \A j \in idx : k >= j
        Bin(k) == SelectRows(rows, [i \in 1..Len(rows) |->
                                       MonthIndex(rows[i][date_col]) = k])
    IN {[tsuki |-> MonthEndOfIndex(k),
         uriage |-> SumColumn(Bin(k), "uriage"),
         arari |-> SumColumn(Bin(k), "arari")] : k \in lo..hi}

RECURSIVE Flatten(_)
Flatten(ss) == IF ss = <<>> THEN <<>> ELSE ss[1] \o Flatten(Tail(ss))

RECURSIVE SetToSeq(_)
SetToSeq(S) == IF S = {} THEN <<>>
               ELSE LET x == CHOOSE y \in S : TRUE IN <<x>> \o SetToSeq(S \ {x})

\* pd.merge(full, grouped, on=tsuki, how='left').fillna(0)
MergeInner(months, grouped) ==
    Flatten([i \in 1..Len(months) |->
               SetToSeq({g \in grouped : g.tsuki = months[i]})])

MergeLeftFillZero(months, grouped) ==
    Flatten([i \in 1..Len(months) |->
               LET hits == {g \in grouped : g.tsuki = months[i]}
               IN IF hits = {}
                  THEN <<[tsuki |-> months[i], uriage |-> 0, arari |-> 0]>>
                  ELSE SetToSeq(hits)])

\* melt(id_vars=tsuki, value_vars=[uriage, arari]): long format.
Melt(merged) ==
    [i \in 1..Len(merged) |->
        [tsuki |-> merged[i].tsuki, shihyou |-> "uriage", goukeichi |-> merged[i].uriage]]
    \o
    [i \in 1..Len(merged) |->
        [tsuki |-> merged[i].tsuki, shihyou |-> "arari", goukeichi |-> merged[i].arari]]

Pending == [kind |-> "pending"]
Info == [kind |-> "info"]
Chart(rows) == [kind |-> "chart", rows |-> rows]
KeyError == [kind |-> "raise", exc |-> "KeyError"]

\* One chart section (lines 147-173 with the order columns, 179-203 with the
\* delivery columns): the rendered output, or the exception raised.
ChartSection(rows, cols, period, date_col, period_col, shoryu_sel, phase_sel, sales_sel) ==
    LET filtered == SelectRows(rows, [i \in 1..Len(rows) |->
                              /\ base_filter(rows[i], shoryu_sel, phase_sel, sales_sel)
                              /\ rows[i][period_col] = period])
        full == create_full_period_df(period)
    IN IF full.kind = "raise" THEN full
       ELSE IF full.kind = "DataFrame" /\ filtered # <<>>
       THEN IF ~({"uriage", "arari"} \subseteq cols) THEN KeyError
            ELSE Chart(Melt(MergeLeftFillZero(full.months, GroupByMonth(filtered, date_col))))
       ELSE Info

(***************************************************************************)
(* The script run                                                          *)
(***************************************************************************)
Init == PipelineIdle /\ call = NoCall

Fail_silent ==
    /\ pc' = "failed"
    /\ error' = FALSE

\* The top-level except handler.
Fail ==
    /\ pc' = "failed"
    /\ error' = TRUE

\* Line 98: fetch the worksheet and process it.
Load ==
    /\ pc = "load"
    /\ call = NoCall
    /\ \E header \in HeaderChoices, sheet \in Worksheets :
          \* pd.DataFrame(data) of no records has no columns at all
          LET cols == IF sheet = <<>> THEN {} ELSE header
          IN /\ columns' = cols
             /\ IF LoadRaises(cols)
                THEN /\ Fail
                     /\ df' = <<>>
                ELSE /\ df' = load_and_process_data([i \in 1..Len(sheet) |->
                                                       [c \in cols |-> sheet[i][c]]], cols)
                     /\ pc' = "filter"
                     /\ UNCHANGED error
    /\ UNCHANGED <<selected_shoryu, selected_phase, selected_sales, all_periods,
                   latest_period_index, selected_period, order_out, delivery_out, call>>

\* Lines 100-203: the sidebar widgets with the user's selections, then the
\* order-based and the delivery-based sections.  An exception at any line
\* leaves what was rendered before it and runs the except handler.
RenderPage ==
    /\ pc = "filter"
    /\ IF ShoryuLookupRaises(columns)
       THEN /\ Fail
            /\ UNCHANGED <<selected_shoryu, selected_phase, selected_sales, all_periods,
                           latest_period_index, selected_period, order_out, delivery_out>>
       ELSE
       /\ selected_shoryu' \in SUBSET ColumnValues(df, "shoryu")
       /\ IF PhaseLookupRaises(columns)
          THEN /\ Fail
               /\ UNCHANGED <<selected_phase, selected_sales, all_periods,
                              latest_period_index, selected_period, order_out, delivery_out>>
          ELSE
          LET periods == AllPeriods(df)
              named == IF BaseFilterRaises(columns) THEN {}
                       ELSE (ColumnValues(df, "tantousha")
                             \cup ColumnValues(df, "eigyo_tantou")) \cap sales_options
          IN /\ selected_phase' \in SUBSET ColumnValues(df, "anken_phase")
             \* deselecting a name no row carries changes no mask
             /\ \E off \in SUBSET named : selected_sales' = sales_options \ off
             /\ all_periods' = periods
             /\ latest_period_index' = LatestPeriodIndex(periods)
             /\ IF periods = <<>>
                THEN selected_period' = None
                ELSE \E i \in 1..Len(periods) : selected_period' = Str(periods[i])
             /\ IF BaseFilterRaises(columns)
                THEN Fail /\ UNCHANGED <<order_out, delivery_out>>
                ELSE LET order == ChartSection(df, columns, selected_period',
                                      "juchu_tsuki", "juchu_ki",
                                      selected_shoryu', selected_phase', selected_sales')
                         delivery == ChartSection(df, columns, selected_period',
                                      "nouhin_tsuki", "nouhin_ki",
                                      selected_shoryu', selected_phase', selected_sales')
                     IN IF order.kind = "raise"
                        THEN Fail /\ UNCHANGED <<order_out, delivery_out>>
                        ELSE /\ order_out' = order
                             /\ IF delivery.kind = "raise"
                                THEN Fail /\ UNCHANGED delivery_out
                                ELSE /\ delivery_out' = delivery
                                     /\ pc' = "done"
                                     /\ UNCHANGED error
    /\ UNCHANGED <<columns, df, call>>

Next == Load \/ RenderPage

Spec == Init /\ [][Next]_vars

(***************************************************************************)
(* Unit harness: one call of one of the three functions on one input.      *)
(***************************************************************************)
\* f"{prefix}{n}{suffix}" as the label is written.
PeriodLabel(n) == <<CH_DAI>> \o DigitsOf(n) \o <<CH_KI>>

\* All strings over an alphabet up to a length.
RECURSIVE StringsUpTo(_, _)
StringsUpTo(alphabet, n) ==
    IF n = 0 THEN {<<>>}
    ELSE LET shorter == StringsUpTo(alphabet, n - 1)
         IN shorter \cup {Append(s, c) : s \in shorter, c \in alphabet}

InputYears == ((BASE_YEAR - 1)..(BASE_YEAR - 1 + MaxYearSpan)) \cup {BASE_YEAR + MaxPeriod}

DateInputs ==
    {NaT} \cup {Timestamp(y, m, d) : y \in InputYears, m \in 1..12, d \in {1, 15, 28}}
          \cup {Timestamp(y, m, DaysInMonth(y, m)) : y \in InputYears, m \in 1..12}

LabelInputs ==
    {None, Num(1), Str(OUT_OF_RANGE)}
    \cup {Str(PeriodLabel(n)) : n \in 0..MaxPeriod}
    \cup {Str(s) : s \in StringsUpTo({CH_DAI, CH_KI, CH_ZERO + 1, CH_X}, MaxStrLen)}

YEN_12000 == <<CH_YEN, CH_ZERO + 1, CH_ZERO + 2, CH_COMMA, CH_ZERO, CH_ZERO, CH_ZERO>>

RawInputs ==
    {None, Num(0), Num(12000), Num(-5), Str(YEN_12000)}
    \cup {Str(s) : s \in StringsUpTo({CH_YEN, CH_COMMA, CH_ZERO, CH_ZERO + 1,
                                      CH_SPACE, CH_X}, MaxStrLen)}

UnitInit == PipelineIdle /\ call = NoCall

CallGetFiscalPeriod ==
    \E date \in DateInputs :
        /\ pc = "load"
        /\ call = NoCall
        /\ call' = [fn |-> "get_fiscal_period", arg |-> date,
                    ret |-> get_fiscal_period(date)]
        /\ UNCHANGED pipeline_vars

CallCreateFullPeriodDf ==
    \E period_str \in LabelInputs :
        /\ pc = "load"
        /\ call = NoCall
        /\ call' = [fn |-> "create_full_period_df", arg |-> period_str,
                    ret |-> create_full_period_df(period_str)]
        /\ UNCHANGED pipeline_vars

CallNormalizeAmount ==
    \E raw \in RawInputs :
        /\ pc = "load"
        /\ call = NoCall
        /\ call' = [fn |-> "normalize_amount", arg |-> raw,
                    ret |-> Num(normalize_amount(raw))]
        /\ UNCHANGED pipeline_vars

UnitNext == CallGetFiscalPeriod \/ CallCreateFullPeriodDf \/ CallNormalizeAmount

SpecUnit == UnitInit /\ [][UnitNext]_vars

(***************************************************************************)
(* Properties of the three functions.                                      *)
(***************************************************************************)
LABEL_1 == <<CH_DAI, CH_ZERO + 1, CH_KI>>

\* A well-formed label: prefix, decimal number >= 1 without leading zero, suffix.
IsPeriodLabel(x) ==
    /\ IsStr(x)
    /\ Len(x.v) >= 3
    /\ x.v[1] = CH_DAI
    /\ x.v[Len(x.v)] = CH_KI
    /\ AllDigits(SubSeq(x.v, 2, Len(x.v) - 1))
    /\ x.v[2] # CH_ZERO

NumberOfLabel(x) == ValueOfDigits(SubSeq(x.v, 2, Len(x.v) - 1))

\* C5: get_fiscal_period returns None for an absent date; otherwise, with
\* fiscal_year = year if month >= 4 else year - 1 and number = fiscal_year - 2022,
\* the sentinel when number <= 0 and the label of number when number >= 1;
\* 31 March 2023 is out of range and 1 April 2023 is period 1.
C5_ResolvePeriod ==
    call.fn = "get_fiscal_period" =>
        IF call.arg = NaT THEN call.ret = None
        ELSE LET fy == IF call.arg.month >= 4 THEN call.arg.year ELSE call.arg.year - 1
                 number == fy - 2022
             IN /\ number <= 0 => call.ret = Str(OUT_OF_RANGE)
                /\ number >= 1 => /\ IsPeriodLabel(call.ret)
                                  /\ NumberOfLabel(call.ret) = number
                /\ call.arg = Timestamp(2023, 3, 31) => call.ret = Str(OUT_OF_RANGE)
                /\ call.arg = Timestamp(2023, 4, 1) => call.ret = Str(LABEL_1)
                /\ (call.arg.month = 3 /\ call.arg.year >= 2024)
                      => NumberOfLabel(call.ret) = call.arg.year - 2023
                /\ (call.arg.month = 4 /\ call.arg.year >= 2023)
                      => NumberOfLabel(call.ret) = call.arg.year - 2022

C5_Witness ==
    /\ call.fn = "get_fiscal_period"
    /\ call.arg = Timestamp(2024, 3, 31)
    /\ call.ret = Str(LABEL_1)

\* One calendar month after a first-of-month value.
NextMonthStart(ts) ==
    IF ts.month = 12 THEN Timestamp(ts.year + 1, 1, 1)
    ELSE Timestamp(ts.year, ts.month + 1, 1)

DateLess(a, b) ==
    \/ a.year < b.year
    \/ a.year = b.year /\ a.month < b.month
    \/ a.year = b.year /\ a.month = b.month /\ a.day < b.day

\* C6: for the label of N >= 1 create_full_period_df returns exactly 12
\* month starts, from 1 April of 2022 + N to 1 March of 2022 + N + 1, each one
\* calendar month after its predecessor, strictly ascending, without duplicates.
C6_ExpandTwelveMonths ==
    (call.fn = "create_full_period_df" /\ IsPeriodLabel(call.arg)) =>
        LET n == NumberOfLabel(call.arg)
        IN /\ call.ret.kind = "DataFrame"
           /\ Len(call.ret.months) = 12
           /\ call.ret.months[1] = Timestamp(2022 + n, 4, 1)
           /\ call.ret.months[12] = Timestamp(2022 + n + 1, 3, 1)
           /\ \A i \in 1..11 :
                 /\ call.ret.months[i + 1] = NextMonthStart(call.ret.months[i])
                 /\ DateLess(call.ret.months[i], call.ret.months[i + 1])
           /\ \A i, j \in 1..12 : i # j => call.ret.months[i] # call.ret.months[j]

C6_Witness ==
    /\ call.fn = "create_full_period_df"
    /\ call.arg = Str(PeriodLabel(10))
    /\ call.ret.kind = "DataFrame"
    /\ call.ret.months[10] = Timestamp(2033, 1, 1)

\* C7: a date that resolves to a well-formed label has its first-of-month
\* truncation among the 12 months the expander returns for that label, and
\* every month the expander returns for a well-formed label resolves back to it.
C7_ResolverExpanderAgree ==
    /\ (call.fn = "get_fiscal_period" /\ IsPeriodLabel(call.ret)) =>
          LET frame == create_full_period_df(call.ret)
          IN /\ frame.kind = "DataFrame"
             /\ \E i \in 1..Len(frame.months) :
                   frame.months[i] = Timestamp(call.arg.year, call.arg.month, 1)
    /\ (call.fn = "create_full_period_df" /\ IsPeriodLabel(call.arg)) =>
          /\ call.ret.kind = "DataFrame"
          /\ \A i \in 1..Len(call.ret.months) :
                get_fiscal_period(call.ret.months[i]) = call.arg

C7_Witness ==
    /\ call.fn = "get_fiscal_period"
    /\ call.arg = Timestamp(2025, 3, 31)
    /\ call.ret = Str(PeriodLabel(2))

\* Strings made only of digits, the currency symbol and the thousands
\* separator, with at least one digit.
IsDecoratedDigits(s) ==
    /\ \A i \in 1..Len(s) : IsDigit(s[i]) \/ s[i] \in {CH_YEN, CH_COMMA}
    /\ \E i \in 1..Len(s) : IsDigit(s[i])

IsBlank(s) == \A i \in 1..Len(s) : s[i] = CH_SPACE

\* C9: the normalised amount is always a number; decorated digits give the
\* number left after removing the decorations; None, blank strings and strings
\* that are not numeric after the removal give 0.
C9_NormalizeAmount ==
    call.fn = "normalize_amount" =>
        /\ call.ret.t = "int"
        /\ call.arg = Str(YEN_12000) => call.ret.v = 12000
        /\ call.arg = None => call.ret.v = 0
        /\ IsStr(call.arg) =>
              /\ IsBlank(call.arg.v) => call.ret.v = 0
              /\ IsDecoratedDigits(call.arg.v) =>
                    call.ret.v = ValueOfDigits(RemoveChars(call.arg.v, {CH_YEN, CH_COMMA}))
              /\ Contains(call.arg.v, CH_X) => call.ret.v = 0
        /\ call.arg.t = "int" => call.ret.v = call.arg.v

C9_Witness ==
    /\ call.fn = "normalize_amount"
    /\ call.arg = Str(YEN_12000)
    /\ call.ret = Num(12000)

\* The inputs C4 lists as not matching the label format.
IsListedMismatch(x) ==
    \/ ~IsStr(x)
    \/ x = Str(OUT_OF_RANGE)
    \/ x = Str(<<>>)
    \/ /\ IsStr(x)
       /\ Len(x.v) >= 2
       /\ x.v[1] = CH_DAI
       /\ x.v[Len(x.v)] = CH_KI
       /\ ~ParseInt(SubSeq(x.v, 2, Len(x.v) - 1)).ok

\* C4: for every input that does not match the label format
\* create_full_period_df returns None without raising.
C4_MismatchReturnsNone ==
    (call.fn = "create_full_period_df" /\ IsListedMismatch(call.arg)) =>
        call.ret = ReturnNone

(***************************************************************************)
(* Properties of the script run.                                           *)
(***************************************************************************)
\* The period number of a present date, from the calendar.
PeriodNumberOf(ts) == (IF ts.month >= 4 THEN ts.year ELSE ts.year - 1) - 2022

PassesFilters(r) ==
    /\ r.shoryu \in selected_shoryu
    /\ r.anken_phase \in selected_phase
    /\ (r.tantousha \in selected_sales \/ r.eigyo_tantou \in selected_sales)

\* The rows that pass the filters and whose date in date_col is present and
\* falls in the selected period.
Matching(date_col) ==
    {i \in 1..Len(df) :
        /\ PassesFilters(df[i])
        /\ df[i][date_col] # NaT
        /\ PeriodNumberOf(df[i][date_col]) = NumberOfLabel(selected_period)}

\* The 12 month starts of period n, from the calendar.
MonthsOfPeriod(n) ==
    {Timestamp(2022 + n, m, 1) : m \in 4..12} \cup {Timestamp(2023 + n, m, 1) : m \in 1..3}

\* A rendered series with exactly one entry per metric for each of the 12
\* months of period n and nothing else.
HasTwelveMonths(out, n) ==
    /\ out.kind = "chart"
    /\ {out.rows[i].tsuki : i \in 1..Len(out.rows)} = MonthsOfPeriod(n)
    /\ Len(out.rows) = 24
    /\ \A m \in MonthsOfPeriod(n) : \A k \in {"uriage", "arari"} :
          Cardinality({i \in 1..Len(out.rows) :
                          out.rows[i].tsuki = m /\ out.rows[i].shihyou = k}) = 1

\* C1 as stated: whenever a run completes with a well-formed period
\* selected, both sections carry exactly 12 month entries, also when no row
\* matches the period.
C1_AlwaysTwelveMonths ==
    (pc = "done" /\ IsPeriodLabel(selected_period)) =>
        /\ HasTwelveMonths(order_out, NumberOfLabel(selected_period))
        /\ HasTwelveMonths(delivery_out, NumberOfLabel(selected_period))

\* C1 amended: in a completed run with a well-formed period selected, a
\* section carries exactly 12 month entries when at least one row passes the
\* filters and falls in the period by that section's date, and shows the
\* "no data" message when no row does.
C1_TwelveMonthsWhenAnyRowMatches ==
    (pc = "done" /\ IsPeriodLabel(selected_period)) =>
        LET n == NumberOfLabel(selected_period)
        IN /\ Matching("juchu_tsuki") # {} => HasTwelveMonths(order_out, n)
           /\ Matching("juchu_tsuki") = {} => order_out = Info
           /\ Matching("nouhin_tsuki") # {} => HasTwelveMonths(delivery_out, n)
           /\ Matching("nouhin_tsuki") = {} => delivery_out = Info

C1_Witness ==
    /\ pc = "done"
    /\ selected_period = Str(LABEL_1)
    /\ Matching("juchu_tsuki") # {}
    /\ Matching("nouhin_tsuki") = {}
    /\ order_out.kind = "chart"
    /\ delivery_out = Info

RECURSIVE SumOfRows(_, _)
SumOfRows(S, c) ==
    IF S = {} THEN 0
    ELSE LET i == CHOOSE j \in S : TRUE IN df[i][c] + SumOfRows(S \ {i}, c)

\* The value a section should show for metric k at month start m.
ExpectedTotal(date_col, m, k) ==
    SumOfRows({i \in Matching(date_col) :
                  /\ df[i][date_col].year = m.year
                  /\ df[i][date_col].month = m.month}, k)

SeriesIsMonthlySum(out, date_col) ==
    out.kind = "chart" =>
        \A i \in 1..Len(out.rows) :
            out.rows[i].goukeichi =
                ExpectedTotal(date_col, out.rows[i].tsuki, out.rows[i].shihyou)

\* C2: in every rendered series the value of a metric at a month is the sum
\* of that metric over the rows that pass the filters, fall in the selected
\* period and are dated in that calendar month.
C2_BucketsAreMonthlySums ==
    (pc = "done" /\ IsPeriodLabel(selected_period)) =>
        /\ SeriesIsMonthlySum(order_out, "juchu_tsuki")
        /\ SeriesIsMonthlySum(delivery_out, "nouhin_tsuki")

PeriodList == {all_periods[i] : i \in 1..Len(all_periods)}

\* C3 as stated: the selectable period list never contains the sentinel,
\* which is therefore never the selected period.
C3_SentinelNeverOffered ==
    /\ OUT_OF_RANGE \notin PeriodList
    /\ selected_period # Str(OUT_OF_RANGE)

\* The label a present date should carry, from the calendar.
ExpectedLabel(ts) ==
    IF PeriodNumberOf(ts) <= 0 THEN OUT_OF_RANGE ELSE PeriodLabel(PeriodNumberOf(ts))

PresentDates ==
    ({df[i].juchu_tsuki : i \in 1..Len(df)} \cup {df[i].nouhin_tsuki : i \in 1..Len(df)})
    \ {NaT}

\* C3 amended: the selectable list is exactly the set of labels of the
\* present order and delivery dates, so it contains the sentinel exactly when
\* some present date has a period number <= 0; the selected period is one
\* of the list.
C3_ListIsLabelsOfData ==
    pc = "done" =>
        /\ PeriodList = {ExpectedLabel(ts) : ts \in PresentDates}
        /\ OUT_OF_RANGE \in PeriodList <=> \E ts \in PresentDates : PeriodNumberOf(ts) <= 0
        /\ PeriodList # {} => (selected_period.t = "str" /\ selected_period.v \in PeriodList)

C3_Witness ==
    /\ pc = "done"
    /\ OUT_OF_RANGE \in PeriodList
    /\ selected_period = Str(OUT_OF_RANGE)
    /\ order_out = Info
    /\ delivery_out = Info

OptionalColumns == {"anken_phase", "eigyo_tantou"}

\* C8 as stated: a worksheet that lacks only the phase column or only the
\* secondary-representative column never ends in the failure handler.
C8_ToleratesMissingOptional ==
    (columns # {} /\ AllColumns \ columns # {} /\ AllColumns \ columns \subseteq OptionalColumns)
        => (pc # "failed" /\ ~error)

\* C8 amended: a run on a worksheet that lacks the phase column or the
\* secondary-representative column ends in the failure handler, with the
\* error reported and neither section rendered.
C8_MissingOptionalIsFatal ==
    (pc \in {"done", "failed"} /\ columns # {} /\ OptionalColumns \ columns # {}) =>
        /\ pc = "failed"
        /\ error
        /\ order_out = Pending
        /\ delivery_out = Pending

C8_Witness ==
    /\ pc = "failed"
    /\ error
    /\ columns = AllColumns \ {"anken_phase"}
    /\ Len(df) > 0

ValidLabels == {l \in PeriodList : IsPeriodLabel(Str(l))}

DefaultPeriod == all_periods[latest_period_index + 1]

IsGreatestNumber(l) ==
    /\ l \in ValidLabels
    /\ \A o \in ValidLabels : NumberOfLabel(Str(o)) <= NumberOfLabel(Str(l))

\* C10: when the data has a well-formed label, the default selection is the
\* label with the greatest period number (never the sentinel).
C10_DefaultIsGreatestNumber ==
    (pc = "done" /\ ValidLabels # {}) => IsGreatestNumber(DefaultPeriod)

====
